---- MODULE Spec2Model ----
(***************************************************************************)
(* Model of src/main.cpp: the start-up sequence of main (subsystem inits,  *)
(* window, renderer, asset loads), the event loop (drain of SDL events,    *)
(* key handling, one render cycle per iteration) and the teardown.         *)
(* Every library call that can fail is a nondeterministic choice between   *)
(* success and failure.                                                    *)
(***************************************************************************)
EXTENDS Integers, Sequences, FiniteSets, TLC

VARIABLES
    pc,          \* position of main: the next step to execute
    attempted,   \* start-up steps attempted so far, in order
    failed,      \* start-up steps whose library call failed
    diag,        \* names printed by printError, in order
    inits,       \* subsystems initialised, in order
    quits,       \* subsystem quit calls issued, in order
    acq,         \* handles acquired (non-null pointers), in order
    rel,         \* handles handed to their release function, in order
    exitStatus,  \* -1 while main runs, else the value main returned
    entered,     \* the while (!quit) loop head has been reached
    iX, iY,      \* sprite position
    useClip,     \* index of the clip drawn
    quit,        \* the quit flag
    music,       \* mixer state: stopped, playing or paused
    mixLog,      \* mixer calls issued so far, in order
    drawn,       \* render calls issued since the loop head was last passed
    quitRenders, \* render cycles performed while quit was already true
    budget,      \* events the environment still delivers (Unbounded: no limit)
    lateEvents,  \* an event was handled while quit was already true
    surfLog,     \* what renderText did with its intermediate surface
    textDim,     \* <<w, h>> of the texture the message rasterises to
    blitIn,      \* arguments of a call of the position form of renderTexture
    blitOut      \* the call of the full form that call made

vars == <<pc, attempted, failed, diag, inits, quits, acq, rel, exitStatus,
          entered, iX, iY, useClip, quit, music, mixLog, drawn, quitRenders,
          budget, lateEvents, surfLog, textDim, blitIn, blitOut>>

\* What no step of main changes: the size the font gives the message, and
\* the stand-alone call of the blit helper.
fixed == <<textDim, blitIn, blitOut>>

lifecycle == <<attempted, failed, diag, inits, quits, acq, rel, exitStatus>>
scene == <<iX, iY, useClip, quit, music, mixLog>>

(***************************************************************************)
(* Bounds of the model                                                     *)
(***************************************************************************)
MaxEvents == 3

Unbounded == 0 - 1

(***************************************************************************)
(* Program constants                                                       *)
(***************************************************************************)
SCREEN_WIDTH == 244 * 3
SCREEN_HEIGHT == 288 * 3
xVel == 10
yVel == 10
iW == 100
iH == 100
NumClips == 4

(***************************************************************************)
(* Sequence helpers                                                        *)
(***************************************************************************)
Range(s) == {s[i] : i \in 1..Len(s)}

Count(s, v) == Cardinality({i \in 1..Len(s) : s[i] = v})

RECURSIVE Concat(_, _)
Concat(s, t) == IF t = <<>> THEN s ELSE Concat(Append(s, Head(t)), Tail(t))

(***************************************************************************)
(* printError: one line naming the function that failed.                   *)
(***************************************************************************)
printError(function) == Append(diag, function)

(***************************************************************************)
(* quitAll: the four library quit calls, in the order of the source.       *)
(***************************************************************************)
\* Mutant: SDL_Quit called first.
QuitOrderCoreFirst == <<"core", "mix", "img", "ttf">>

QuitOrder == <<"mix", "img", "ttf", "core">>

quitAll == Concat(quits, QuitOrder)

(***************************************************************************)
(* cleanup(args...): hands each non-null argument to its release function, *)
(* first argument first.  A pointer is non-null iff the handle was         *)
(* acquired; pointers are never reset after a release.                     *)
(***************************************************************************)
RECURSIVE cleanup(_, _, _)
cleanup(released, held, args) ==
    IF args = <<>> THEN released
    ELSE cleanup(IF Head(args) \in held THEN Append(released, Head(args))
                                        ELSE released,
                 held, Tail(args))

(***************************************************************************)
(* Argument lists of the cleanup calls of main.                            *)
(***************************************************************************)
RendererFailRelease == <<"window">>
FontFailRelease == <<"renderer", "window">>
\* Mutant: the window is left out of the cleanup call.
ImageFailReleaseNoWindow == <<"font", "image", "text", "renderer">>

ImageFailRelease == <<"font", "image", "text", "renderer", "window">>
SongFailRelease == <<"song", "font", "image", "text", "renderer", "window">>
\* Mutant: the window is destroyed before its renderer.
ExitReleaseWindowFirst == <<"song", "font", "image", "window", "renderer">>

ExitRelease == <<"song", "font", "image", "renderer", "window">>

(***************************************************************************)
(* Initial state: main is about to call SDL_Init.  The locals of the loop  *)
(* carry the values their declarations give them.                          *)
(***************************************************************************)
InitWith(b, dims, calls) ==
    /\ pc = "sdl_init"
    /\ attempted = <<>>
    /\ failed = {}
    /\ diag = <<>>
    /\ inits = <<>>
    /\ quits = <<>>
    /\ acq = <<>>
    /\ rel = <<>>
    /\ exitStatus = -1
    /\ entered = FALSE
    /\ iX = SCREEN_WIDTH \div 2 - iW \div 2
    /\ iY = SCREEN_HEIGHT \div 2 - iH \div 2
    /\ useClip = 0
    /\ quit = FALSE
    /\ music = "stopped"
    /\ mixLog = <<>>
    /\ drawn = <<>>
    /\ quitRenders = 0
    /\ budget = b
    /\ lateEvents = FALSE
    /\ surfLog = <<>>
    /\ textDim \in dims
    /\ blitIn \in calls
    /\ blitOut = <<>>

\* Sizes the font may give the rendered message.
TextDims == {<<200, 150>>, <<533, 57>>}

Init == InitWith(MaxEvents, TextDims, {<<>>})

InitMove == InitWith(Unbounded, {<<200, 150>>}, {<<>>})

(***************************************************************************)
(* Start-up                                                                *)
(***************************************************************************)
\* A fatal start-up failure after quitAll: return 1.
Abort(released) ==
    /\ rel' = released
    /\ quits' = quitAll
    /\ exitStatus' = 1
    /\ pc' = "done"

SDLInit ==
    /\ pc = "sdl_init"
    /\ attempted' = Append(attempted, "SDL_Init")
    /\ \E ok \in BOOLEAN :
        IF ok
        THEN /\ inits' = Append(inits, "core")
             /\ pc' = "mix_open"
             /\ UNCHANGED <<failed, diag, exitStatus>>
        ELSE /\ failed' = failed \cup {"SDL_Init"}
             /\ diag' = printError("SDL_Init")
             /\ exitStatus' = 1
             /\ pc' = "done"
             /\ UNCHANGED inits
    /\ UNCHANGED <<quits, acq, rel, entered, scene, drawn, quitRenders, budget,
                   lateEvents, surfLog, fixed>>

\* One of the three library inits that follow SDL_Init.
SubsystemInit(at, step, sub, next) ==
    /\ pc = at
    /\ attempted' = Append(attempted, step)
    /\ \E ok \in BOOLEAN :
        IF ok
        THEN /\ inits' = Append(inits, sub)
             /\ pc' = next
             /\ UNCHANGED <<failed, diag, quits, rel, exitStatus>>
        ELSE /\ failed' = failed \cup {step}
             /\ diag' = printError(step)
             /\ Abort(rel)
             /\ UNCHANGED inits
    /\ UNCHANGED <<acq, entered, scene, drawn, quitRenders, budget,
                   lateEvents, surfLog, fixed>>

MixOpenAudio == SubsystemInit("mix_open", "Mix_OpenAudio", "mix", "img_init")

IMGInit == SubsystemInit("img_init", "IMG_Init", "img", "ttf_init")

TTFInit == SubsystemInit("ttf_init", "TTF_Init", "ttf", "create_window")

\* A creation whose failure is checked at once: on failure cleanup(args),
\* printError, quitAll, return 1.
Acquire(at, step, handle, args, next) ==
    /\ pc = at
    /\ attempted' = Append(attempted, step)
    /\ \E ok \in BOOLEAN :
        IF ok
        THEN /\ acq' = Append(acq, handle)
             /\ pc' = next
             /\ UNCHANGED <<failed, diag, quits, rel, exitStatus>>
        ELSE /\ failed' = failed \cup {step}
             /\ diag' = printError(step)
             /\ Abort(cleanup(rel, Range(acq), args))
             /\ UNCHANGED acq
    /\ UNCHANGED <<inits, entered, scene, drawn, quitRenders, budget,
                   lateEvents, surfLog, fixed>>

CreateWindow ==
    Acquire("create_window", "SDL_CreateWindow", "window", <<>>, "create_renderer")

CreateRenderer ==
    Acquire("create_renderer", "SDL_CreateRenderer", "renderer",
            RendererFailRelease, "open_font")

\* Mutant: the font pointer is not checked; start-up goes on.
OpenFontUnchecked ==
    /\ pc = "open_font"
    /\ attempted' = Append(attempted, "TTF_OpenFont")
    /\ \E ok \in BOOLEAN :
        IF ok
        THEN /\ acq' = Append(acq, "font")
             /\ UNCHANGED <<failed, diag>>
        ELSE /\ failed' = failed \cup {"TTF_OpenFont"}
             /\ diag' = printError("TTF_OpenFont")
             /\ UNCHANGED acq
    /\ pc' = "render_text"
    /\ UNCHANGED <<inits, quits, rel, exitStatus, entered, scene, drawn,
                   quitRenders, budget,
                   lateEvents, surfLog, fixed>>

OpenFont ==
    Acquire("open_font", "TTF_OpenFont", "font", FontFailRelease, "render_text")

\* Mutant: renderText returns at once when the upload fails, before
\* cleanup(surf).
RenderTextLeak ==
    /\ pc = "render_text"
    /\ attempted' = Append(attempted, "renderText")
    /\ \E surfOk \in BOOLEAN, texOk \in BOOLEAN :
        IF ~surfOk
        THEN /\ failed' = failed \cup {"renderText"}
             /\ diag' = printError("TTF_RenderText")
             /\ UNCHANGED <<acq, surfLog>>
        ELSE IF ~texOk
        THEN /\ failed' = failed \cup {"renderText"}
             /\ diag' = printError("SDL_CreateTexture")
             /\ surfLog' = <<"create">>
             /\ UNCHANGED acq
        ELSE /\ acq' = Append(acq, "text")
             /\ surfLog' = <<"create", "free">>
             /\ UNCHANGED <<failed, diag>>
    /\ pc' = "load_image"
    /\ UNCHANGED <<inits, quits, rel, exitStatus, entered, scene, drawn,
                   quitRenders, budget, lateEvents, fixed>>

\* text = renderText(...): rasterise to a surface (on failure print and
\* return nullptr), upload it to a texture (on failure print), cleanup(surf),
\* return the texture.  main does not check the result here; it goes on
\* to load the image.
RenderText ==
    /\ pc = "render_text"
    /\ attempted' = Append(attempted, "renderText")
    /\ \E surfOk \in BOOLEAN, texOk \in BOOLEAN :
        IF ~surfOk
        THEN /\ failed' = failed \cup {"renderText"}
             /\ diag' = printError("TTF_RenderText")
             /\ UNCHANGED <<acq, surfLog>>
        ELSE /\ IF ~texOk
                THEN /\ failed' = failed \cup {"renderText"}
                     /\ diag' = printError("SDL_CreateTexture")
                     /\ UNCHANGED acq
                ELSE /\ acq' = Append(acq, "text")
                     /\ UNCHANGED <<failed, diag>>
             /\ surfLog' = <<"create", "free">>
    /\ pc' = "load_image"
    /\ UNCHANGED <<inits, quits, rel, exitStatus, entered, scene, drawn,
                   quitRenders, budget, lateEvents, fixed>>

\* image = loadTexture(...); if (image == nullptr || text == nullptr) abort.
LoadImage ==
    /\ pc = "load_image"
    /\ attempted' = Append(attempted, "loadTexture")
    /\ \E ok \in BOOLEAN :
        /\ IF ok
           THEN /\ acq' = Append(acq, "image")
                /\ UNCHANGED <<failed, diag>>
           ELSE /\ failed' = failed \cup {"loadTexture"}
                /\ diag' = printError("LoadTexture")
                /\ UNCHANGED acq
        /\ IF ~ok \/ "text" \notin Range(acq)
           THEN Abort(cleanup(rel, Range(acq'), ImageFailRelease))
           ELSE /\ pc' = "load_music"
                /\ UNCHANGED <<quits, rel, exitStatus>>
    /\ UNCHANGED <<inits, entered, scene, drawn, quitRenders, budget,
                   lateEvents, surfLog, fixed>>

\* Mutant: the song pointer is not checked; main goes on into the loop.
LoadMusicUnchecked ==
    /\ pc = "load_music"
    /\ attempted' = Append(attempted, "loadMusic")
    /\ \E ok \in BOOLEAN :
        IF ok
        THEN /\ acq' = Append(acq, "song")
             /\ UNCHANGED <<failed, diag>>
        ELSE /\ failed' = failed \cup {"loadMusic"}
             /\ diag' = printError("Mix_LoadMUS")
             /\ UNCHANGED acq
    /\ pc' = "setup"
    /\ UNCHANGED <<inits, quits, rel, exitStatus, entered, scene, drawn,
                   quitRenders, budget,
                   lateEvents, surfLog, fixed>>

\* song = loadMusic(...); if (song == nullptr) abort.
LoadMusic ==
    /\ pc = "load_music"
    /\ attempted' = Append(attempted, "loadMusic")
    /\ \E ok \in BOOLEAN :
        IF ok
        THEN /\ acq' = Append(acq, "song")
             /\ pc' = "setup"
             /\ UNCHANGED <<failed, diag, quits, rel, exitStatus>>
        ELSE /\ failed' = failed \cup {"loadMusic"}
             /\ diag' = printError("Mix_LoadMUS")
             /\ Abort(cleanup(rel, Range(acq), SongFailRelease))
             /\ UNCHANGED acq
    /\ UNCHANGED <<inits, entered, scene, drawn, quitRenders, budget,
                   lateEvents, surfLog, fixed>>

\* Mix_PlayMusic(song, -1): the track starts (looping) or the call fails
\* and the mixer stays stopped.  The return value is ignored by main.
Mix_PlayMusic(ok) ==
    /\ mixLog' = Append(mixLog, "play")
    /\ music' = IF ok THEN "playing" ELSE "stopped"

\* Mutant: the Mix_PlayMusic call before the loop is missing.
SetupNoMusic ==
    /\ pc = "setup"
    /\ iX' = SCREEN_WIDTH \div 2 - iW \div 2
    /\ iY' = SCREEN_HEIGHT \div 2 - iH \div 2
    /\ useClip' = 0
    /\ quit' = FALSE
    /\ entered' = TRUE
    /\ pc' = "loop_head"
    /\ UNCHANGED <<lifecycle, music, mixLog, drawn, quitRenders, budget,
                   lateEvents, surfLog, fixed>>

\* Locals of the loop, the first Mix_PlayMusic, quit = false.
Setup ==
    /\ pc = "setup"
    /\ iX' = SCREEN_WIDTH \div 2 - iW \div 2
    /\ iY' = SCREEN_HEIGHT \div 2 - iH \div 2
    /\ useClip' = 0
    /\ \E ok \in BOOLEAN : Mix_PlayMusic(ok)
    /\ quit' = FALSE
    /\ entered' = TRUE
    /\ pc' = "loop_head"
    /\ UNCHANGED <<lifecycle, drawn, quitRenders, budget,
                   lateEvents, surfLog, fixed>>

Startup ==
    \/ SDLInit
    \/ MixOpenAudio
    \/ IMGInit
    \/ TTFInit
    \/ CreateWindow
    \/ CreateRenderer
    \/ OpenFont
    \/ RenderText
    \/ LoadImage
    \/ LoadMusic
    \/ Setup

(***************************************************************************)
(* Events delivered by SDL_PollEvent                                       *)
(***************************************************************************)
KeyDown(sym) == [type |-> "KEYDOWN", sym |-> sym]

KeyUp(sym) == [type |-> "KEYUP", sym |-> sym]

WindowClose == [type |-> "QUIT", sym |-> "none"]

MouseMotion == [type |-> "MOUSEMOTION", sym |-> "none"]

DigitKeys == {"1", "KP_1", "2", "KP_2", "3", "KP_3", "4", "KP_4"}
MoveKeys == {"UP", "w", "DOWN", "s", "LEFT", "a", "RIGHT", "d"}
\* Mutant: a stray case label makes the x key a quit key.
QuitKeysWithX == {"q", "ESCAPE", "x"}

QuitKeys == {"q", "ESCAPE"}
OtherKeys == {"x", "5", "SPACE"}
Keys == DigitKeys \cup MoveKeys \cup QuitKeys \cup OtherKeys \cup {"m"}

Events ==
    {KeyDown(k) : k \in Keys}
        \cup {KeyUp(k) : k \in {"q", "m", "3", "UP"}}
        \cup {WindowClose, MouseMotion}

\* The events of the runs that only move the sprite or quit.
MoveEvents ==
    {KeyDown(k) : k \in MoveKeys \cup {"ESCAPE", "x"}} \cup {WindowClose}

(***************************************************************************)
(* Key handling: the switch on e.key.keysym.sym                            *)
(***************************************************************************)
\* Mutant: the break after case SDLK_KP_3 is missing.
ClipOfKeyFallThrough(sym) ==
    CASE sym \in {"1", "KP_1"} -> 0
      [] sym \in {"2", "KP_2"} -> 1
      [] sym \in {"3", "KP_3", "4", "KP_4"} -> 3

\* case SDLK_1 .. SDLK_KP_4
ClipOfKey(sym) ==
    CASE sym \in {"1", "KP_1"} -> 0
      [] sym \in {"2", "KP_2"} -> 1
      [] sym \in {"3", "KP_3"} -> 2
      [] sym \in {"4", "KP_4"} -> 3

\* case SDLK_UP, SDLK_w
MoveUp(y) ==
    LET y1 == IF y >= 0 THEN y - yVel ELSE y
    IN  IF y1 < 0 THEN 0 ELSE y1

\* Mutant: the guard and the clamp test the top edge of the sprite, not
\* its bottom edge.
MoveDownTopEdge(y) ==
    LET y1 == IF y <= SCREEN_HEIGHT THEN y + yVel ELSE y
    IN  IF y1 > SCREEN_HEIGHT THEN SCREEN_HEIGHT - iH ELSE y1

\* case SDLK_DOWN, SDLK_s
MoveDown(y) ==
    LET y1 == IF y + iH <= SCREEN_HEIGHT THEN y + yVel ELSE y
    IN  IF y1 + iH > SCREEN_HEIGHT THEN SCREEN_HEIGHT - iH ELSE y1

\* case SDLK_LEFT, SDLK_a
MoveLeft(x) ==
    LET x1 == IF x >= 0 THEN x - xVel ELSE x
    IN  IF x1 < 0 THEN 0 ELSE x1

\* Mutant: the clamp after the step is missing.
MoveRightNoClamp(x) == IF x + iW <= SCREEN_WIDTH THEN x + xVel ELSE x

\* case SDLK_RIGHT, SDLK_d
MoveRight(x) ==
    LET x1 == IF x + iW <= SCREEN_WIDTH THEN x + xVel ELSE x
    IN  IF x1 + iW > SCREEN_WIDTH THEN SCREEN_WIDTH - iW ELSE x1

\* Mutant: a paused track is started again instead of resumed.
MusicToggleRestart ==
    IF music = "stopped" \/ music = "paused"
    THEN \E ok \in BOOLEAN : Mix_PlayMusic(ok)
    ELSE /\ mixLog' = Append(mixLog, "pause")
         /\ music' = "paused"

\* case SDLK_m.  Mix_PlayingMusic() is 0 only when the mixer is stopped (a
\* paused track counts as playing); Mix_PausedMusic() is 1 when paused.
MusicToggle ==
    IF music = "stopped"
    THEN \E ok \in BOOLEAN : Mix_PlayMusic(ok)
    ELSE IF music = "paused"
    THEN /\ mixLog' = Append(mixLog, "resume")
         /\ music' = "playing"
    ELSE /\ mixLog' = Append(mixLog, "pause")
         /\ music' = "paused"

\* The body of while (SDL_PollEvent(&e)) for one event.
HandleEvent(ev) ==
    IF ev.type = "QUIT"
    THEN /\ quit' = TRUE
         /\ UNCHANGED <<iX, iY, useClip, music, mixLog>>
    ELSE IF ev.type = "KEYDOWN"
    THEN CASE ev.sym \in DigitKeys ->
                /\ useClip' = ClipOfKey(ev.sym)
                /\ UNCHANGED <<iX, iY, quit, music, mixLog>>
           [] ev.sym \in {"UP", "w"} ->
                /\ iY' = MoveUp(iY)
                /\ UNCHANGED <<iX, useClip, quit, music, mixLog>>
           [] ev.sym \in {"DOWN", "s"} ->
                /\ iY' = MoveDown(iY)
                /\ UNCHANGED <<iX, useClip, quit, music, mixLog>>
           [] ev.sym \in {"LEFT", "a"} ->
                /\ iX' = MoveLeft(iX)
                /\ UNCHANGED <<iY, useClip, quit, music, mixLog>>
           [] ev.sym \in {"RIGHT", "d"} ->
                /\ iX' = MoveRight(iX)
                /\ UNCHANGED <<iY, useClip, quit, music, mixLog>>
           [] ev.sym = "m" ->
                /\ MusicToggle
                /\ UNCHANGED <<iX, iY, useClip, quit>>
           [] ev.sym \in QuitKeys ->
                /\ quit' = TRUE
                /\ UNCHANGED <<iX, iY, useClip, music, mixLog>>
           [] OTHER -> UNCHANGED scene
    ELSE UNCHANGED scene

(***************************************************************************)
(* The event loop                                                          *)
(***************************************************************************)
\* while (!quit)
LoopHead ==
    /\ pc = "loop_head"
    /\ pc' = IF quit THEN "shutdown" ELSE "poll"
    /\ drawn' = <<>>
    /\ UNCHANGED <<lifecycle, entered, scene, quitRenders, budget,
                   lateEvents, surfLog, fixed>>

\* Mutant: once quit is set the remaining events of the drain are polled
\* but no longer handled.
PollEventSkipAfterQuit(ev) ==
    /\ pc = "poll"
    /\ budget # 0
    /\ budget' = IF budget > 0 THEN budget - 1 ELSE budget
    /\ IF quit THEN UNCHANGED scene ELSE HandleEvent(ev)
    /\ lateEvents' = (lateEvents \/ quit)
    /\ pc' = "poll"
    /\ UNCHANGED <<lifecycle, entered, drawn, quitRenders, surfLog, fixed>>

\* SDL_PollEvent returned 1 with event ev, and the body handled it.
PollEvent(ev) ==
    /\ pc = "poll"
    /\ budget # 0
    /\ budget' = IF budget > 0 THEN budget - 1 ELSE budget
    /\ HandleEvent(ev)
    /\ lateEvents' = (lateEvents \/ quit)
    /\ pc' = "poll"
    /\ UNCHANGED <<lifecycle, entered, drawn, quitRenders, surfLog, fixed>>

(***************************************************************************)
(* The blit helper.  A texture is [id, w, h] with its native size; a clip  *)
(* pointer is <<>> (nullptr) or <<rect>>; a rectangle is [x, y, w, h].     *)
(***************************************************************************)
\* Full form: SDL_RenderCopy(ren, tex, clip, &dst).
renderTextureTo(tex, dst, clip) == [tex |-> tex.id, src |-> clip, dst |-> dst]

\* Mutant: the destination always takes the texture's native size.
renderTextureAtNative(tex, x, y, clip) ==
    renderTextureTo(tex, [x |-> x, y |-> y, w |-> tex.w, h |-> tex.h], clip)

\* Position form: the destination takes the clip's size, or the size
\* SDL_QueryTexture reports when there is no clip.
renderTextureAt(tex, x, y, clip) ==
    LET dest == IF clip # <<>>
                THEN [x |-> x, y |-> y, w |-> clip[1].w, h |-> clip[1].h]
                ELSE [x |-> x, y |-> y, w |-> tex.w, h |-> tex.h]
    IN  renderTextureTo(tex, dest, clip)

\* Mutant: the column is taken from i % 2 and the row from i / 2.
clipsTransposed(i) ==
    [x |-> (i % 2) * iW, y |-> (i \div 2) * iH, w |-> iW, h |-> iH]

\* clips[i] of the spritesheet.
clips(i) == [x |-> (i \div 2) * iW, y |-> (i % 2) * iH, w |-> iW, h |-> iH]

\* The spritesheet: a grid of two by two clips.
ImageTexture == [id |-> "image", w |-> 2 * iW, h |-> 2 * iH]

\* The rendered message.
TextTexture == [id |-> "text", w |-> textDim[1], h |-> textDim[2]]

\* Centred position of the text.
tX == SCREEN_WIDTH \div 2 - textDim[1] \div 2

tY == SCREEN_HEIGHT \div 2 - textDim[2] \div 2

\* The four render calls of one iteration.
RenderCycle ==
    << <<"clear">>,
       <<"blit", "image", iX, iY, useClip,
         renderTextureAt(ImageTexture, iX, iY, <<clips(useClip)>>)>>,
       <<"blit", "text", tX, tY, 0 - 1,
         renderTextureAt(TextTexture, tX, tY, <<>>)>>,
       <<"present">> >>

\* Mutant: the loop is left right after the drain once quit is set.
DrainDoneBreakOnQuit ==
    /\ pc = "poll"
    /\ drawn' = IF quit THEN drawn ELSE RenderCycle
    /\ pc' = "loop_head"
    /\ UNCHANGED <<lifecycle, entered, scene, quitRenders, budget,
                   lateEvents, surfLog, fixed>>

\* SDL_PollEvent returned 0: the drain ends and the scene is rendered.
DrainDone ==
    /\ pc = "poll"
    /\ drawn' = RenderCycle
    /\ quitRenders' = IF quit THEN quitRenders + 1 ELSE quitRenders
    /\ pc' = "loop_head"
    /\ UNCHANGED <<lifecycle, entered, scene, budget, lateEvents, surfLog,
                   fixed>>

\* Mutant: the Mix_HaltMusic call is missing.
ShutdownNoHalt ==
    /\ pc = "shutdown"
    /\ pc' = "teardown"
    /\ UNCHANGED <<lifecycle, entered, scene, drawn, quitRenders, budget,
                   lateEvents, surfLog, fixed>>

\* Mix_HaltMusic();
Shutdown ==
    /\ pc = "shutdown"
    /\ mixLog' = Append(mixLog, "halt")
    /\ music' = "stopped"
    /\ pc' = "teardown"
    /\ UNCHANGED <<lifecycle, entered, iX, iY, useClip, quit, drawn,
                   quitRenders, budget, lateEvents, surfLog, fixed>>

\* cleanup(song, font, image, renderer, window); quitAll(); return 0;
Teardown ==
    /\ pc = "teardown"
    /\ rel' = cleanup(rel, Range(acq), ExitRelease)
    /\ quits' = quitAll
    /\ exitStatus' = 0
    /\ pc' = "done"
    /\ UNCHANGED <<attempted, failed, diag, inits, acq, entered, scene, drawn,
                   quitRenders, budget, lateEvents, surfLog, fixed>>

Next ==
    \/ Startup
    \/ LoopHead
    \/ \E ev \in Events : PollEvent(ev)
    \/ DrainDone
    \/ Shutdown
    \/ Teardown

NextMove ==
    \/ Startup
    \/ LoopHead
    \/ \E ev \in MoveEvents : PollEvent(ev)
    \/ DrainDone
    \/ Shutdown
    \/ Teardown

Spec == Init /\ [][Next]_vars

\* The loop under the scheduling of a sequential program: main goes on to
\* its next statement, and SDL_PollEvent eventually reports an empty queue.
Fairness ==
    /\ WF_vars(Startup)
    /\ WF_vars(LoopHead)
    /\ WF_vars(DrainDone)
    /\ WF_vars(Shutdown)
    /\ WF_vars(Teardown)

SpecLive == Init /\ [][Next]_vars /\ Fairness

SpecMove == InitMove /\ [][NextMove]_vars

(***************************************************************************)
(* The position form of renderTexture on its own: one call with arguments  *)
(* drawn from small sets.                                                  *)
(***************************************************************************)
BlitSizes == {1, 150, 200}
BlitCoords == {0 - 7, 0, 316}
BlitTextures == {[id |-> "tex", w |-> w, h |-> h] : w \in BlitSizes, h \in BlitSizes}
BlitClips ==
    {<<>>} \cup {<<[x |-> x, y |-> 0, w |-> w, h |-> h]>> :
                    x \in {0, 100}, w \in {1, 100}, h \in {40, 100}}
BlitCalls ==
    {<<[tex |-> t, x |-> x, y |-> y, clip |-> c]>> :
        t \in BlitTextures, x \in BlitCoords, y \in BlitCoords, c \in BlitClips}

InitBlit == InitWith(MaxEvents, {<<200, 150>>}, BlitCalls)

\* renderTexture(tex, ren, x, y, clip)
BlitCall ==
    /\ blitIn # <<>>
    /\ blitOut = <<>>
    /\ blitOut' = <<renderTextureAt(blitIn[1].tex, blitIn[1].x, blitIn[1].y,
                                    blitIn[1].clip)>>
    /\ UNCHANGED <<pc, lifecycle, entered, scene, drawn, quitRenders, budget,
                   lateEvents, surfLog, textDim, blitIn>>

NextBlit == BlitCall

SpecBlit == InitBlit /\ [][NextBlit]_vars

(***************************************************************************)
(* Properties                                                              *)
(***************************************************************************)
\* The frame of the last render cycle shows the sprite at (x, y).
FrameAt(x, y) ==
    /\ pc = "loop_head"
    /\ Len(drawn) = 4
    /\ drawn[2][3] = x
    /\ drawn[2][4] = y

\* C1: from the centred start (316, 382), after any sequence of key-down
\* events the sprite position satisfies 0 <= x <= 632 and 0 <= y <= 764
\* (x in [0, SCREEN_WIDTH - 100], y in [0, SCREEN_HEIGHT - 100]), in
\* particular in every rendered frame.
C1_PositionInBounds ==
    /\ SCREEN_WIDTH - iW = 632
    /\ SCREEN_HEIGHT - iH = 764
    /\ iX \in 0..632
    /\ iY \in 0..764
    /\ (pc = "loop_head" /\ drawn = <<>>) => (iX = 316 /\ iY = 382)
    /\ Len(drawn) = 4 => (drawn[2][3] \in 0..632 /\ drawn[2][4] \in 0..764)

\* C1 witness: frames are rendered with the sprite clamped at the right
\* and top edges, which takes a step that would have crossed each bound.
C1_Witness == FrameAt(632, 0)

\* The clip index a digit or numpad key k stands for, k - 1.
DigitOfKey(sym) ==
    CASE sym \in {"1", "KP_1"} -> 1
      [] sym \in {"2", "KP_2"} -> 2
      [] sym \in {"3", "KP_3"} -> 3
      [] sym \in {"4", "KP_4"} -> 4

\* C2: the clip index is in {0,1,2,3} in every reachable state, it is 0
\* when the loop is entered, and a key-down of digit or numpad key k sets
\* it to k - 1 whatever it was before (key "3" always gives 2).
C2_ClipIndex ==
    /\ [](useClip \in 0..(NumClips - 1))
    /\ [][Setup => useClip' = 0]_vars
    /\ [][\A k \in DigitKeys :
            PollEvent(KeyDown(k)) => useClip' = DigitOfKey(k) - 1]_vars
    /\ [][\A c \in 0..(NumClips - 1) :
            (useClip = c /\ (PollEvent(KeyDown("3")) \/ PollEvent(KeyDown("KP_3"))))
                => useClip' = 2]_vars

\* C2 witness: a frame is rendered with clip 2 after two events, the
\* second of which pressed "3" while another clip was selected.
C2_Witness ==
    /\ pc = "loop_head"
    /\ Len(drawn) = 4
    /\ drawn[2][5] = 2
    /\ budget = MaxEvents - 2

\* An M key-down handled by the loop.
PressM == PollEvent(KeyDown("m"))

\* C3 as stated: pressing M when the music is stopped transitions to
\* playing; the next press pauses; the third resumes and never restarts;
\* start-playback is issued by an M press only when the music is stopped.
C3_Original ==
    [][PressM =>
        /\ (music = "stopped" => music' = "playing" /\ mixLog' = Append(mixLog, "play"))
        /\ (music = "playing" => music' = "paused" /\ mixLog' = Append(mixLog, "pause"))
        /\ (music = "paused" => music' = "playing" /\ mixLog' = Append(mixLog, "resume"))]_vars

\* C3 amended: pressing M when the music is stopped issues start-playback
\* and transitions to playing when that call succeeds (on failure the music
\* stays stopped); a playing unpaused track is only ever paused, a paused
\* track only ever resumed, and start-playback is issued by an M press
\* only when the music is stopped.
C3_Toggle ==
    [][PressM =>
        /\ (music = "stopped" =>
                /\ mixLog' = Append(mixLog, "play")
                /\ music' \in {"playing", "stopped"})
        /\ (music = "playing" => music' = "paused" /\ mixLog' = Append(mixLog, "pause"))
        /\ (music = "paused" => music' = "playing" /\ mixLog' = Append(mixLog, "resume"))
        /\ (mixLog'[Len(mixLog')] = "play" <=> music = "stopped")]_vars

\* C3 witness: the start before the loop failed, then three M presses
\* started, paused and resumed the track.
C3_Witness ==
    /\ mixLog = <<"play", "play", "pause", "resume">>
    /\ music = "playing"

\* The events that ask to quit.
QuitEvents == {WindowClose} \cup {KeyDown(k) : k \in QuitKeys}

\* C4 as stated: no clear, blit or present occurs after the event that set
\* quit has been processed.
C4_Original == quitRenders = 0

\* C4 amended: a window-close event or a Q/Escape key-down sets quit to
\* true; the iteration that polled it still ends with its render cycle, so
\* exactly one render cycle follows the event, and none occurs once the
\* loop head has seen quit true.
C4_QuitStopsRendering ==
    /\ [][\A ev \in QuitEvents : PollEvent(ev) => quit']_vars
    /\ [](quitRenders \in {0, 1})
    /\ []((pc = "shutdown" \/ pc = "teardown" \/ (pc = "done" /\ exitStatus = 0))
            => quitRenders = 1)
    /\ []((pc = "loop_head" /\ quit) => Len(drawn) = 4)
    /\ [][(pc = "shutdown" \/ pc = "teardown" \/ pc = "done") =>
            (drawn' = drawn /\ quitRenders' = quitRenders)]_vars

\* C4 witness: the program has quit from the loop after the one render
\* cycle that followed the quit event.
C4_Witness ==
    /\ pc = "done"
    /\ quit
    /\ quitRenders = 1

\* C5: on every exit path each acquired handle has been released exactly
\* once when the process exits.
C5_ReleasedExactlyOnce ==
    pc = "done" => \A h \in Range(acq) : Count(rel, h) = 1

\* C5 counterexample state: the program has left the loop normally and
\* the text texture was never handed to its release function.
C5_Leak ==
    /\ pc = "done"
    /\ exitStatus = 0
    /\ "text" \in Range(acq)
    /\ Count(rel, "text") = 0

\* The order in which main acquires its handles.
AcqOrder == <<"window", "renderer", "font", "text", "image", "song">>

\* Position of a handle in the acquisition order.
AcqPos(h) == CHOOSE i \in 1..Len(AcqOrder) : AcqOrder[i] = h

\* Handles are acquired in the order window, renderer, font, text texture,
\* image texture, music.
AcquiredInOrder ==
    \A i \in 1..Len(acq) : \A j \in 1..Len(acq) :
        i < j => AcqPos(acq[i]) < AcqPos(acq[j])

Reverse(s) == [i \in 1..Len(s) |-> s[Len(s) + 1 - i]]

\* C7 as stated: on normal exit the subsystems are shut down in the
\* reverse of their initialisation order.
C7_Original ==
    (pc = "done" /\ exitStatus = 0) =>
        /\ inits = <<"core", "mix", "img", "ttf">>
        /\ quits = Reverse(inits)

\* C7 amended: on normal exit the core subsystem, initialised first, is
\* shut down last, and the other three are shut down in their
\* initialisation order: audio-mixing, image-decoding, font-rendering, core.
C7_CoreLast ==
    (pc = "done" /\ exitStatus = 0) =>
        /\ inits = <<"core", "mix", "img", "ttf">>
        /\ quits = Concat(Tail(inits), <<Head(inits)>>)
        /\ quits = <<"mix", "img", "ttf", "core">>

\* C7 witness: a normal exit with the four quit calls issued.
C7_Witness ==
    /\ pc = "done"
    /\ exitStatus = 0
    /\ Len(inits) = 4
    /\ Len(quits) = 4

\* C8: if the image fails to load the process exits with status 1 without
\* entering the event loop (no event polled, no frame rendered), and the
\* window and the renderer have each been released before exit.
C8_ImageFailure ==
    "loadTexture" \in failed =>
        /\ pc = "done"
        /\ exitStatus = 1
        /\ ~entered
        /\ budget = MaxEvents
        /\ drawn = <<>>
        /\ mixLog = <<>>
        /\ Count(rel, "window") = 1
        /\ Count(rel, "renderer") = 1

\* C8 witness: only the image load failed, and the process has exited
\* with the window released.
C8_Witness ==
    /\ failed = {"loadTexture"}
    /\ pc = "done"
    /\ "window" \in Range(rel)

\* The start-up steps in the order main attempts them.
StepOrder ==
    <<"SDL_Init", "Mix_OpenAudio", "IMG_Init", "TTF_Init", "SDL_CreateWindow",
      "SDL_CreateRenderer", "TTF_OpenFont", "renderText", "loadTexture",
      "loadMusic">>

\* C9: the exit status is 0 exactly when the loop was entered and left
\* via the quit flag, and 1 exactly when some subsystem init, window or
\* renderer creation or asset load failed; the loop is entered only if
\* all of them succeeded.
C9_ExitStatus ==
    /\ exitStatus \in {-1, 0, 1}
    /\ (exitStatus # -1 <=> pc = "done")
    /\ (exitStatus = 0 <=> (pc = "done" /\ entered /\ quit))
    /\ (exitStatus = 1 <=> (pc = "done" /\ failed # {}))
    /\ (entered =>
            /\ failed = {}
            /\ attempted = StepOrder
            /\ inits = <<"core", "mix", "img", "ttf">>
            /\ acq = AcqOrder)

\* C9 witness: the loop was entered, the quit flag ended it and main
\* returned 0.
C9_Witness ==
    /\ exitStatus = 0
    /\ entered
    /\ quit
    /\ attempted = StepOrder

\* The names printError may print for a failing step.
DiagOf(step) ==
    CASE step = "renderText" -> {"TTF_RenderText", "SDL_CreateTexture"}
      [] step = "loadTexture" -> {"LoadTexture"}
      [] step = "loadMusic" -> {"Mix_LoadMUS"}
      [] OTHER -> {step}

\* The steps are attempted in order and every failure has printed its
\* diagnostic.
OrderedWithDiagnostics ==
    /\ Len(attempted) <= Len(StepOrder)
    /\ \A i \in 1..Len(attempted) : attempted[i] = StepOrder[i]
    /\ failed \subseteq Range(attempted)
    /\ \A st \in failed : DiagOf(st) \cap Range(diag) # {}

\* C10 as stated: when a step fails start-up is aborted at that step, no
\* later step or asset load is attempted, and a diagnostic naming the
\* failing operation is printed.
C10_Original ==
    /\ OrderedWithDiagnostics
    /\ \A i \in 1..Len(attempted) :
        attempted[i] \in failed => i = Len(attempted)
    /\ (pc = "done" /\ failed # {}) => exitStatus = 1

\* C10 amended: each step is fatal and prints a diagnostic naming the
\* failing operation; after a failing step no later step is attempted,
\* except that a failed text texture is checked only after the image load,
\* so the image load (and nothing after it) is still attempted.
C10_FatalSteps ==
    /\ OrderedWithDiagnostics
    /\ \A i \in 1..Len(attempted) :
        (attempted[i] \in failed /\ attempted[i] # "renderText") =>
            /\ i = Len(attempted)
            /\ pc = "done"
            /\ exitStatus = 1
    /\ "renderText" \in failed =>
        \/ (pc = "load_image" /\ attempted[Len(attempted)] = "renderText")
        \/ (pc = "done" /\ exitStatus = 1
                /\ attempted[Len(attempted)] = "loadTexture")
    /\ failed # {} => ~entered

\* C10 witness: the text texture failed, the image load was still
\* attempted and succeeded, and start-up was then aborted.
C10_Witness ==
    /\ failed = {"renderText"}
    /\ pc = "done"
    /\ "image" \in Range(acq)
    /\ attempted[Len(attempted)] = "loadTexture"

\* C11: the position form of the blit helper never scales: the
\* destination rectangle handed to the full form has top-left (x, y) and
\* the clip's width and height when a clip is given, the texture's native
\* width and height when none is given (a 200x150 texture gives w = 200,
\* h = 150); the clip argument is forwarded unchanged.
C11_PositionFormNeverScales ==
    blitOut # <<>> =>
        LET in == blitIn[1]
            out == blitOut[1]
        IN  /\ out.tex = in.tex.id
            /\ out.src = in.clip
            /\ out.dst.x = in.x
            /\ out.dst.y = in.y
            /\ in.clip # <<>> =>
                (out.dst.w = in.clip[1].w /\ out.dst.h = in.clip[1].h)
            /\ in.clip = <<>> =>
                (out.dst.w = in.tex.w /\ out.dst.h = in.tex.h)
            /\ (in.clip = <<>> /\ in.tex.w = 200 /\ in.tex.h = 150) =>
                (out.dst.w = 200 /\ out.dst.h = 150)

\* C11 witness: a call with a clip smaller than the texture has been made,
\* at a negative x.
C11_Witness ==
    /\ blitOut # <<>>
    /\ blitIn[1].clip # <<>>
    /\ blitIn[1].tex.w = 200
    /\ blitIn[1].tex.h = 150
    /\ blitIn[1].clip[1].w = 100
    /\ blitIn[1].clip[1].h = 40
    /\ blitIn[1].x < 0
    /\ blitOut[1].dst.w = 100

Max(a, b) == IF a >= b THEN a ELSE b

Min(a, b) == IF a <= b THEN a ELSE b

\* The plain clamp a movement key stands for: the position after the key.
ClampMove(sym, x, y) ==
    CASE sym \in {"UP", "w"} -> <<x, Max(0, y - 10)>>
      [] sym \in {"DOWN", "s"} -> <<x, Min(764, y + 10)>>
      [] sym \in {"LEFT", "a"} -> <<Max(0, x - 10), y>>
      [] sym \in {"RIGHT", "d"} -> <<Min(632, x + 10), y>>

\* C12: at every reachable position the guarded step followed by the clamp
\* equals the plain clamp: Up/W gives y' = max(0, y-10), Down/S gives
\* y' = min(764, y+10), Left/A gives x' = max(0, x-10), Right/D gives
\* x' = min(632, x+10); so a move changes its coordinate by exactly 10
\* unless that would cross the bound, and a move into a bound already
\* reached changes nothing.
C12_MoveIsClamp ==
    /\ [](/\ MoveUp(iY) = Max(0, iY - 10)
          /\ MoveDown(iY) = Min(764, iY + 10)
          /\ MoveLeft(iX) = Max(0, iX - 10)
          /\ MoveRight(iX) = Min(632, iX + 10))
    /\ []((iY >= 10 => MoveUp(iY) = iY - 10) /\ (iY = 0 => MoveUp(iY) = 0))
    /\ []((iY <= 754 => MoveDown(iY) = iY + 10) /\ (iY = 764 => MoveDown(iY) = 764))
    /\ []((iX >= 10 => MoveLeft(iX) = iX - 10) /\ (iX = 0 => MoveLeft(iX) = 0))
    /\ []((iX <= 622 => MoveRight(iX) = iX + 10) /\ (iX = 632 => MoveRight(iX) = 632))
    /\ [][(pc = "poll" /\ pc' = "poll") =>
            /\ iY' < iY => <<iX', iY'>> = ClampMove("UP", iX, iY)
            /\ iY' > iY => <<iX', iY'>> = ClampMove("DOWN", iX, iY)
            /\ iX' < iX => <<iX', iY'>> = ClampMove("LEFT", iX, iY)
            /\ iX' > iX => <<iX', iY'>> = ClampMove("RIGHT", iX, iY)]_vars

\* C12 witness: the sprite sits at the bottom edge, two short of where a
\* full step from 762 would have put it, and at the left edge.
C12_Witness ==
    /\ pc = "poll"
    /\ iY = 764
    /\ iX = 0
    /\ ~quit

\* The sub-rectangle of the spritesheet a clip index selects.
ClipRect(i) ==
    CASE i = 0 -> [x |-> 0, y |-> 0, w |-> 100, h |-> 100]
      [] i = 1 -> [x |-> 0, y |-> 100, w |-> 100, h |-> 100]
      [] i = 2 -> [x |-> 100, y |-> 0, w |-> 100, h |-> 100]
      [] i = 3 -> [x |-> 100, y |-> 100, w |-> 100, h |-> 100]

\* C13: every iteration first drains the pending events and only then
\* issues exactly one render cycle, in the order clear, blit sprite (at the
\* current x, y with the rectangle of the current clip index), blit text,
\* present; no event is handled between the clear and the present, so the
\* presented frame reflects all events polled in the iteration.
C13_DrainThenRender ==
    /\ [](drawn # <<>> =>
            /\ pc = "loop_head"
            /\ Len(drawn) = 4
            /\ drawn[1] = <<"clear">>
            /\ drawn[2][2] = "image"
            /\ drawn[2][6] = [tex |-> "image",
                              src |-> <<ClipRect(useClip)>>,
                              dst |-> [x |-> iX, y |-> iY, w |-> 100, h |-> 100]]
            /\ drawn[3][2] = "text"
            /\ drawn[3][6].tex = "text"
            /\ drawn[3][6].src = <<>>
            /\ drawn[3][6].dst = [x |-> 366 - textDim[1] \div 2,
                                  y |-> 432 - textDim[2] \div 2,
                                  w |-> textDim[1], h |-> textDim[2]]
            /\ drawn[4] = <<"present">>)
    /\ [][(pc = "poll" /\ pc' = "poll") => (drawn = <<>> /\ drawn' = <<>>)]_vars
    /\ [][(pc = "poll" /\ pc' # "poll") =>
            (pc' = "loop_head" /\ drawn = <<>> /\ Len(drawn') = 4
                /\ UNCHANGED <<iX, iY, useClip, quit, music>>)]_vars
    /\ [][pc = "loop_head" => (pc' \in {"poll", "shutdown"} /\ drawn' = <<>>)]_vars

\* C13 witness: a frame is presented that shows both events polled in its
\* iteration, a step to the right and the second clip.
C13_Witness ==
    /\ FrameAt(326, 382)
    /\ drawn[2][6].src[1].y = 100
    /\ budget = MaxEvents - 2
    /\ quitRenders = 0

\* Last element of a non-empty sequence.
Last(s) == s[Len(s)]

\* C14: quit is initially false and terminal: once true nothing sets it
\* back; the loop then terminates (the event queue being eventually empty),
\* the music is halted before the music handle is released, and the
\* process exits with status 0.
C14_QuitTerminal ==
    /\ [](~entered => ~quit)
    /\ [][Setup => ~quit']_vars
    /\ [][quit => quit']_vars
    /\ (quit ~> (pc = "done" /\ exitStatus = 0))
    /\ []((pc = "teardown" \/ (entered /\ "song" \in Range(rel))) =>
            (mixLog # <<>> /\ Last(mixLog) = "halt" /\ music = "stopped"))
    /\ [](pc = "teardown" => "song" \notin Range(rel))

\* C14 witness: after quit the music was halted, the song released and
\* main returned 0.
C14_Witness ==
    /\ quit
    /\ pc = "done"
    /\ exitStatus = 0
    /\ mixLog # <<>>
    /\ Last(mixLog) = "halt"
    /\ Count(rel, "song") = 1

\* What the music state becomes when M is pressed and the call succeeds.
Toggled(m) ==
    CASE m = "stopped" -> "playing"
      [] m = "playing" -> "paused"
      [] m = "paused" -> "playing"

\* The effect a polled event has on position, clip index and music,
\* whatever the quit flag is.
NormalEffect(ev) ==
    IF ev.type # "KEYDOWN"
    THEN UNCHANGED <<iX, iY, useClip, music>>
    ELSE /\ <<iX', iY'>> = IF ev.sym \in MoveKeys THEN ClampMove(ev.sym, iX, iY)
                                                 ELSE <<iX, iY>>
         /\ useClip' = IF ev.sym \in DigitKeys THEN DigitOfKey(ev.sym) - 1
                                               ELSE useClip
         /\ IF ev.sym = "m"
            THEN /\ music' \in {Toggled(music), music}
                 /\ music # "stopped" => music' # music
                 /\ Len(mixLog') = Len(mixLog) + 1
            ELSE music' = music

\* C15: the quit flag is tested only at the loop head, once per iteration;
\* nothing cancels an iteration: the events polled after the quit event in
\* the same drain have their normal effects on position, clip index and
\* music before the loop exits.
C15_NoMidIterationCancel ==
    /\ [][pc' = "shutdown" => (pc = "shutdown" \/ (pc = "loop_head" /\ quit))]_vars
    /\ [][(pc = "loop_head" /\ ~quit) => pc' = "poll"]_vars
    /\ [][(pc = "poll" /\ quit) =>
            /\ pc' \in {"poll", "loop_head"}
            /\ quit'
            /\ pc' = "poll" => \A ev \in Events : PollEvent(ev) => NormalEffect(ev)]_vars

\* C15 witness: of two events polled in one drain the first set quit and
\* the second, polled behind it, selected the third clip.
C15_Witness ==
    /\ pc = "poll"
    /\ quit
    /\ lateEvents
    /\ budget = MaxEvents - 2
    /\ useClip = 2

\* C16: each event changes only the state it is bound to: a digit key the
\* clip index, Up/W and Down/S y, Left/A and Right/D x, M the music state,
\* Q/Escape and window-close the quit flag; every other key-down and every
\* other event leaves position, clip index, quit flag and music unchanged.
C16_FrameConditions ==
    [][(pc = "poll" /\ pc' = "poll") =>
        \A ev \in Events :
            PollEvent(ev) =>
                CASE ev.type = "QUIT" ->
                        quit' /\ UNCHANGED <<iX, iY, useClip, music>>
                  [] ev.type = "KEYDOWN" /\ ev.sym \in {"q", "ESCAPE"} ->
                        quit' /\ UNCHANGED <<iX, iY, useClip, music>>
                  [] ev.type = "KEYDOWN" /\ ev.sym \in
                        {"1", "2", "3", "4", "KP_1", "KP_2", "KP_3", "KP_4"} ->
                        UNCHANGED <<iX, iY, quit, music>>
                  [] ev.type = "KEYDOWN" /\ ev.sym \in {"UP", "w", "DOWN", "s"} ->
                        UNCHANGED <<iX, useClip, quit, music>>
                  [] ev.type = "KEYDOWN" /\ ev.sym \in {"LEFT", "a", "RIGHT", "d"} ->
                        UNCHANGED <<iY, useClip, quit, music>>
                  [] ev.type = "KEYDOWN" /\ ev.sym = "m" ->
                        UNCHANGED <<iX, iY, useClip, quit>>
                  [] OTHER ->
                        UNCHANGED <<iX, iY, useClip, quit, music, mixLog>>]_vars

\* C16 witness: three events were handled, none of them bound to the
\* position or the quit flag: the clip and the music changed, nothing else.
C16_Witness ==
    /\ pc = "poll"
    /\ budget = 0
    /\ MaxEvents >= 2
    /\ useClip = 3
    /\ music = "paused"
    /\ iX = 316
    /\ iY = 382
    /\ ~quit

\* C17: renderText returns empty with a diagnostic and without any surface
\* to release when rasterisation fails; otherwise it releases the surface
\* exactly once before returning, whether the upload succeeded or not; its
\* result is empty, with a diagnostic, exactly when rasterisation or upload
\* failed.
C17_RenderText ==
    LET called == "renderText" \in Range(attempted)
        rasterFailed == "TTF_RenderText" \in Range(diag)
        uploadFailed == "SDL_CreateTexture" \in Range(diag)
        empty == "text" \notin Range(acq)
    IN  /\ ~called => (surfLog = <<>> /\ empty /\ ~rasterFailed /\ ~uploadFailed)
        /\ called =>
            /\ ~(rasterFailed /\ uploadFailed)
            /\ rasterFailed => (surfLog = <<>> /\ empty)
            /\ ~rasterFailed => surfLog = <<"create", "free">>
            /\ empty <=> (rasterFailed \/ uploadFailed)
            /\ empty <=> "renderText" \in failed
            /\ Count(diag, "TTF_RenderText") + Count(diag, "SDL_CreateTexture")
                    = IF empty THEN 1 ELSE 0

\* C17 witness: the upload failed; the surface was created and freed and
\* the result is empty.
C17_Witness ==
    /\ "SDL_CreateTexture" \in Range(diag)
    /\ surfLog = <<"create", "free">>
    /\ "text" \notin Range(acq)

\* The mixer calls the M presses of the run issued: all but the start
\* before the loop and the halt after it.
PressCalls ==
    LET n == IF mixLog # <<>> /\ Last(mixLog) = "halt" THEN Len(mixLog) - 1
                                                       ELSE Len(mixLog)
    IN  SubSeq(mixLog, 2, n)

\* C18: the music is started (looping) once before the loop is entered;
\* when that start succeeded the music is playing and unpaused on loop
\* entry, the first M press pauses it rather than starting it, and the M
\* presses of the run alternate pause, resume, pause, ... without ever
\* issuing a start.
C18_StartedBeforeLoop ==
    /\ [](~entered => mixLog = <<>>)
    /\ [](entered => (mixLog # <<>> /\ mixLog[1] = "play"))
    /\ [][Setup => (mixLog' = <<"play">> /\ music' \in {"playing", "stopped"})]_vars
    /\ [][(entered /\ music # "stopped" /\ pc' # "teardown") =>
            music' # "stopped"]_vars
    /\ [][(PressM /\ music = "playing") =>
            (mixLog' = Append(mixLog, "pause") /\ music' = "paused")]_vars
    /\ []((entered /\ (PressCalls = <<>> \/ PressCalls[1] # "play")
                   /\ (music # "stopped" \/ pc \in {"teardown", "done"})) =>
            \A i \in 1..Len(PressCalls) :
                PressCalls[i] = IF i % 2 = 1 THEN "pause" ELSE "resume")
    /\ []((entered /\ music = "stopped" /\ pc \notin {"teardown", "done"}) =>
            \A i \in 1..Len(mixLog) : mixLog[i] = "play")

\* C18 witness: the start before the loop succeeded and three M presses
\* paused, resumed and paused the track.
C18_Witness ==
    /\ mixLog = <<"play", "pause", "resume", "pause">>
    /\ music = "paused"

====
